---- MODULE Spec2Model ----
(***************************************************************************)
(* Model of proof_of_concept/__main__.py: the subtitle catalog, the        *)
(* classification of probed streams, the missing-language computation, the *)
(* ffmpeg command (the "plan") and the run over the movie library.          *)
(*                                                                         *)
(* Python values are records with a "type" field, so that None, a str and   *)
(* a Language object can be told apart the way the code tells them apart.   *)
(* File names are sequences of their dot-separated segments, because the    *)
(* two regular expressions of the program only look at the dots and at the  *)
(* character class of a segment.                                            *)
(***************************************************************************)
EXTENDS Integers, Sequences, FiniteSets, TLC

VARIABLES
    srt_files,          \* glob result of the subtitle directory, in glob order
    library,            \* glob result of the movie directory (mkv first, then mp4)
    media,              \* what ffprobe reports for each source movie path
    outputs,            \* the files of the output directory, by output path
    run_no,             \* number of the current run of the program
    pc,                 \* position of the program inside Analyser.__init__
    srt_pos,            \* subtitle files consumed from find_external_subtitles
    subtitle_map,       \* self.subtitle_map
    movie_pos,          \* movies consumed from find_movies
    movie,              \* the loop variable "movie"
    missing_subtitles,  \* local of the existing-output check
    answer,             \* what the operator typed at the last prompt
    missing_languages,  \* local "missing_languages"
    command,            \* local "command"
    error,              \* the exception that ended the run, if any
    history             \* observations of the run, read by the properties only

vars == <<srt_files, library, media, outputs, run_no, pc, srt_pos, subtitle_map,
          movie_pos, movie, missing_subtitles, answer, missing_languages,
          command, error, history>>

-----------------------------------------------------------------------------
(* Bounds of the model.                                                     *)

MaxFiles == 2

MaxStreams == 4

MaxRuns == 2

-----------------------------------------------------------------------------
(* Python values.                                                           *)

None == [type |-> "NoneType"]

Str(s) == [type |-> "str", value |-> s]

Min(S) == CHOOSE x \in S : \A y \in S : x <= y

-----------------------------------------------------------------------------
(* class CodecType, class Language                                          *)

CodecType == {"audio", "video", "subtitle"}

\* Rows of the ISO 639 table of the iso639 package that the model uses.
languages ==
    { [part1 |-> "en", part2t |-> "eng", part2b |-> "eng", name |-> "English"],
      [part1 |-> "ja", part2t |-> "jpn", part2b |-> "jpn", name |-> "Japanese"],
      [part1 |-> "fr", part2t |-> "fra", part2b |-> "fre", name |-> "French"] }

Language(part1, part2t, part2b, name) ==
    [type |-> "Language", part1 |-> part1, part2t |-> part2t,
     part2b |-> part2b, name |-> name]

\* Language.__repr__ / __hash__: the hash of '<Language name>', i.e. the name
Language_hash(self) == self.name

\* Language.__eq__
Language_eq(self, other) ==
    /\ self.type = "Language"
    /\ other.type = "Language"
    /\ Language_hash(self) = Language_hash(other)

\* x in list, for a list of stream languages (None, str or Language)
In(x, list) == \E i \in 1..Len(list) : Language_eq(x, list[i])

\* Language.from_string: languages.get by name, part1, part2t, part2b in this
\* order; a KeyError of all four falls off the loop and returns None.
Language_from_string(string) ==
    LET hits(key) == IF string.type = "str"
                     THEN {l \in languages : l[key] = string.value}
                     ELSE {}
        make(l) == Language(l.part1, l.part2t, l.part2b, l.name)
    IN  IF hits("name") # {} THEN make(CHOOSE l \in hits("name") : TRUE)
        ELSE IF hits("part1") # {} THEN make(CHOOSE l \in hits("part1") : TRUE)
        ELSE IF hits("part2t") # {} THEN make(CHOOSE l \in hits("part2t") : TRUE)
        ELSE IF hits("part2b") # {} THEN make(CHOOSE l \in hits("part2b") : TRUE)
        ELSE None

DEFAULT_LANGUAGE == Language_from_string(Str("eng"))

-----------------------------------------------------------------------------
(* class Stream, load_stream                                                *)

Stream(index, codec_name, codec_type, language, attached_pic) ==
    [index |-> index, codec_name |-> codec_name, codec_type |-> codec_type,
     language |-> language, attached_pic |-> attached_pic]

is_valid_subtitle(self) ==
    /\ self.codec_type = "subtitle"
    /\ self.codec_name \in {"ass", "dvd_subtitle", "ssa", "subrip"}

is_valid_stream(self) ==
    \/ self.codec_type \in {"audio", "video"}
    \/ is_valid_subtitle(self)

\* load_stream raises KeyError for a missing index, codec_name or codec_type
\* and ValueError for a codec_type that is no CodecType.
load_stream_raises(stream_json) ==
    \/ ~ ({"index", "codec_name", "codec_type"} \subseteq DOMAIN stream_json)
    \/ stream_json.codec_type \notin CodecType

load_stream(stream_json) ==
    LET stream_tags == IF "tags" \in DOMAIN stream_json
                       THEN stream_json.tags ELSE <<>>
        stream_dispositions == IF "disposition" \in DOMAIN stream_json
                               THEN stream_json.disposition ELSE <<>>
        attached_pic == IF "attached_pic" \in DOMAIN stream_dispositions
                        THEN stream_dispositions.attached_pic # 0
                        ELSE FALSE
        language_string == IF "language" \in DOMAIN stream_tags
                           THEN Str(stream_tags.language) ELSE None
        \* language_string and Language.from_string(language_string)
        language == IF language_string = None \/ language_string = Str("")
                    THEN language_string
                    ELSE Language_from_string(language_string)
    IN  Stream(stream_json.index, stream_json.codec_name,
               stream_json.codec_type, language, attached_pic)

-----------------------------------------------------------------------------
(* class Movie                                                              *)

\* A path is [directory, file]: the last directory of the path and the file
\* name as its dot-separated segments.  Movie.filename_pattern is greedy, so
\* the name is everything before the last dot and the type what follows it.
Path(directory, file) == [directory |-> directory, file |-> file]

\* Movie.find_streams raises when ffprobe exits non-zero (check_returncode) or
\* when load_stream raises on one of the stream records.
find_streams_raises(report) ==
    \/ report.returncode # 0
    \/ \E i \in 1..Len(report.streams) : load_stream_raises(report.streams[i])

find_streams(report) ==
    [i \in 1..Len(report.streams) |-> load_stream(report.streams[i])]

find_subtitles(streams) == SelectSeq(streams, is_valid_subtitle)

\* Movie.__init__, given what ffprobe reports for the path
Movie(path, report) ==
    LET n == Len(path.file)
        streams == find_streams(report)
    IN  [type |-> "Movie", path |-> path,
         name |-> SubSeq(path.file, 1, n - 1), filetype |-> path.file[n],
         directory |-> path.directory,
         streams |-> streams, subtitles |-> find_subtitles(streams)]

\* Movie.output_path: f'{output_dir}/{directory}/{name} subtitles.mkv'
output_path(self) == [directory |-> self.directory, name |-> self.name]

-----------------------------------------------------------------------------
(* class ExternalSubtitle                                                   *)

\* Segments made of the characters a-z only (the class [a-z]+ of the pattern).
LowerAlpha == {"en", "ja", "fr", "eng", "jpn", "xx", "srt", "forced"}

\* Segments that start with the characters "srt".
StartsWithSrt == {"srt"}

\* re.match(r'(?P<name>.+?)(\.(?P<language>[a-z]+?))?\.srt', file_name): the
\* lazy name is the shortest non-empty prefix after which the rest matches;
\* at that prefix the optional language group is tried before it is skipped.
\* The pattern is not anchored at the end.  The result is None when nothing
\* matches.
ExternalSubtitle_match(file_name) ==
    LET n == Len(file_name)
        NonEmpty(k) == k > 1 \/ file_name[1] # ""
        WithLanguage(k) == /\ k + 2 <= n
                           /\ file_name[k + 1] \in LowerAlpha
                           /\ file_name[k + 2] \in StartsWithSrt
        WithoutLanguage(k) == /\ k + 1 <= n
                              /\ file_name[k + 1] \in StartsWithSrt
        ks == {k \in 1..n : NonEmpty(k) /\ (WithLanguage(k) \/ WithoutLanguage(k))}
    IN  IF ks = {} THEN None
        ELSE LET k == Min(ks)
             IN  [type |-> "Match",
                  name |-> SubSeq(file_name, 1, k),
                  language |-> IF WithLanguage(k)
                               THEN Str(file_name[k + 1]) ELSE None]

\* ExternalSubtitle.from_string raises AttributeError (None.groupdict) when the
\* file name does not match.
ExternalSubtitle_from_string_raises(path) ==
    ExternalSubtitle_match(path.file) = None

ExternalSubtitle_from_string(path) ==
    LET groupdict == ExternalSubtitle_match(path.file)
    IN  [type |-> "ExternalSubtitle",
         language |-> Language_from_string(groupdict.language),
         name |-> groupdict.name,
         path |-> path]

\* get_language
get_language_raises(language) == language.type = "str"

get_language(language) ==
    IF language = None THEN DEFAULT_LANGUAGE.part2b ELSE language.part2b

-----------------------------------------------------------------------------
(* Analyser: the subtitle map.  A dict is a sequence of [key, value] items   *)
(* in insertion order; the outer dict is a function of the movie names.      *)

dict_keys(d) == [i \in 1..Len(d) |-> d[i].key]

dict_has(d, key) == \E i \in 1..Len(d) : Language_eq(d[i].key, key)

\* d.get(key)
dict_get(d, key) ==
    IF dict_has(d, key)
    THEN d[CHOOSE i \in 1..Len(d) : Language_eq(d[i].key, key)].value
    ELSE None

\* d[key] = value: an existing key keeps its place
dict_set(d, key, value) ==
    IF dict_has(d, key)
    THEN [i \in 1..Len(d) |->
            IF Language_eq(d[i].key, key) THEN [key |-> d[i].key, value |-> value]
            ELSE d[i]]
    ELSE Append(d, [key |-> key, value |-> value])

\* The language a subtitle file is recorded under (lines 221-224).
catalog_language(subtitle) ==
    IF subtitle.language # None THEN subtitle.language
    ELSE Language_from_string(Str("en"))

\* One iteration of the loop of build_subtitle_map.
build_subtitle_map_step(map, subtitle) ==
    LET with_name == IF subtitle.name \in DOMAIN map THEN map
                     ELSE [n \in DOMAIN map \cup {subtitle.name} |->
                             IF n \in DOMAIN map THEN map[n] ELSE <<>>]
    IN  [with_name EXCEPT ![subtitle.name] =
            dict_set(@, catalog_language(subtitle), subtitle.path)]

\* Analyser.get_subtitle_path
get_subtitle_path(map, movie_name, language) ==
    IF movie_name \in DOMAIN map THEN dict_get(map[movie_name], language)
    ELSE None

-----------------------------------------------------------------------------
(* Analyser.__init__: the ffmpeg command.  One element of the command stands *)
(* for one option with its value, i.e. for two consecutive strings of the    *)
(* Python list.                                                              *)

PIPE0 == Path("pipe:", <<"0">>)

\* '-i', path
ArgInput(path) == [opt |-> "-i", path |-> path]

\* '-map', f'0:{index}'
ArgMapIndex(index) == [opt |-> "-map", file |-> 0, index |-> index]

\* '-map', f'{file}:s'
ArgMapSubtitles(file) == [opt |-> "-map", file |-> file, streams |-> "s"]

\* f'-c:{kind}:{slot}', value
ArgCodec(kind, slot, value) ==
    [opt |-> "-c", kind |-> kind, slot |-> slot, value |-> value]

\* f'-metadata:s:s:{slot}', f'language={value}'
ArgLanguage(slot, value) ==
    [opt |-> "-metadata:s", kind |-> "s", slot |-> slot, value |-> value]

\* f'-disposition:{kind}:{slot}', value
ArgDisposition(kind, slot, value) ==
    [opt |-> "-disposition", kind |-> kind, slot |-> slot, value |-> value]

\* the output path, last element of the command
ArgOutput(path) == [opt |-> "output", path |-> path]

RECURSIVE Concat(_)
Concat(ss) == IF ss = <<>> THEN <<>> ELSE Head(ss) \o Concat(Tail(ss))

\* lines 241-246: the catalog languages the existing output lacks
existing_missing_subtitles(map, name, existing_movie) ==
    LET existing_languages ==
            [i \in 1..Len(existing_movie.subtitles) |->
                existing_movie.subtitles[i].language]
    IN  IF name \in DOMAIN map
        THEN SelectSeq(dict_keys(map[name]),
                       LAMBDA i : ~ In(i, existing_languages))
        ELSE <<>>

\* lines 258-261
compute_missing_languages(map, m) ==
    LET existing_languages ==
            [i \in 1..Len(m.subtitles) |-> m.subtitles[i].language]
        available_languages ==
            IF m.name \in DOMAIN map THEN dict_keys(map[m.name]) ELSE <<>>
    IN  SelectSeq(available_languages, LAMBDA i : ~ In(i, existing_languages))

\* a slip of lines 268-270: the subtitle inputs added in reverse order
input_args_reversed(map, m, missing) ==
    <<ArgInput(PIPE0)>> \o
    [i \in 1..Len(missing) |->
        ArgInput(get_subtitle_path(map, m.name, missing[Len(missing) + 1 - i]))]

\* lines 266-270
input_args(map, m, missing) ==
    <<ArgInput(PIPE0)>> \o
    [i \in 1..Len(missing) |-> ArgInput(get_subtitle_path(map, m.name, missing[i]))]

\* lines 272-276, 306-307
video_streams(m) ==
    SelectSeq(m.streams, LAMBDA i : i.codec_type = "video" /\ ~ i.attached_pic)

audio_streams(m) == SelectSeq(m.streams, LAMBDA i : i.codec_type = "audio")

attached_pics(m) ==
    SelectSeq(m.streams, LAMBDA i : i.codec_type = "video" /\ i.attached_pic)

\* a slip of line 279: the loop counter mapped in place of stream.index
video_args_by_counter(m) ==
    LET vs == video_streams(m)
    IN  Concat([k \in 1..Len(vs) |->
            <<ArgMapIndex(k - 1), ArgCodec("v", k - 1, "libx265")>>])

\* lines 278-280; index counts from 0
video_args(m) ==
    LET vs == video_streams(m)
    IN  Concat([k \in 1..Len(vs) |->
            <<ArgMapIndex(vs[k].index), ArgCodec("v", k - 1, "libx265")>>])

\* lines 282-283
audio_args(m) ==
    LET as == audio_streams(m)
    IN  [k \in 1..Len(as) |-> ArgMapIndex(as[k].index)]

\* lines 292-293 and 303-304
default_disposition(language, slot) ==
    IF Language_eq(language, DEFAULT_LANGUAGE)
    THEN <<ArgDisposition("s", slot, "default")>> ELSE <<>>

\* lines 285-293
subtitle_args(m) ==
    Concat([k \in 1..Len(m.subtitles) |->
        LET stream == m.subtitles[k]
            index == k - 1
        IN  <<ArgMapIndex(stream.index),
              ArgLanguage(index, get_language(stream.language)),
              ArgCodec("s", index, stream.codec_name)>>
            \o default_disposition(stream.language, index)])

\* a slip of line 298: the external subtitles numbered from 0
external_offset_from_zero(m, index) == index

\* line 298
external_offset(m, index) == Len(m.subtitles) + index

\* lines 295-304
external_args(m, missing) ==
    Concat([k \in 1..Len(missing) |->
        LET language == missing[k]
            index == k - 1
            offset == external_offset(m, index)
        IN  <<ArgMapSubtitles(index + 1),
              ArgLanguage(offset, get_language(language)),
              ArgCodec("s", offset, "subrip")>>
            \o default_disposition(language, offset)])

\* a slip of line 312: the pictures numbered from 0
attached_offset_from_zero(m, index) == index

\* line 312
attached_offset(m, index) == Len(video_streams(m)) + index

\* lines 309-315
attached_args(m) ==
    LET pics == attached_pics(m)
    IN  Concat([k \in 1..Len(pics) |->
            LET stream == pics[k]
                offset == attached_offset(m, k - 1)
            IN  <<ArgMapIndex(stream.index),
                  ArgCodec("v", offset, stream.codec_name),
                  ArgDisposition("v", offset, "attached_pic")>>])

\* get_language(stream.language) raises AttributeError for a stream whose
\* language is a str: the empty language tag, kept as '' by load_stream
build_command_raises(m) ==
    \E k \in 1..Len(m.subtitles) : get_language_raises(m.subtitles[k].language)

\* lines 266-322
build_command(map, m, missing) ==
    input_args(map, m, missing)
    \o video_args(m)
    \o audio_args(m)
    \o subtitle_args(m)
    \o external_args(m, missing)
    \o attached_args(m)
    \o <<ArgOutput(output_path(m))>>

-----------------------------------------------------------------------------
(* The external tools.  ffmpeg numbers the output streams in the order of    *)
(* the -map options, and a per-stream option f'-c:s:{n}' names the n-th       *)
(* output stream of that kind; ffprobe of the output reports these streams.  *)

Max(S) == CHOOSE x \in S : \A y \in S : x >= y

\* what ffprobe reports for a .srt file: one subrip stream without tags
SrtStream == [index |-> 0, codec_name |-> "subrip", codec_type |-> "subtitle"]

KindOf(codec_type) ==
    IF codec_type = "video" THEN "v" ELSE IF codec_type = "audio" THEN "a" ELSE "s"

\* the codec an encoder name produces
EncodedAs(value) == IF value = "libx265" THEN "hevc" ELSE value

DefaultCodec(kind) ==
    IF kind = "v" THEN "h264" ELSE IF kind = "a" THEN "vorbis" ELSE "ass"

HasLanguageTag(raw) ==
    "tags" \in DOMAIN raw /\ "language" \in DOMAIN raw.tags

IsAttachedPic(raw) ==
    /\ "disposition" \in DOMAIN raw
    /\ "attached_pic" \in DOMAIN raw.disposition
    /\ raw.disposition.attached_pic # 0

\* The probe report of the file ffmpeg writes for the command cmd, whose
\* input 0 (pipe:0) is the movie with the probe report source.
TranscoderOutput(cmd, source) ==
    LET maps == SelectSeq(cmd, LAMBDA a : a.opt = "-map")
        src(k) == IF maps[k].file = 0
                  THEN source.streams[CHOOSE i \in 1..Len(source.streams) :
                                         source.streams[i].index = maps[k].index]
                  ELSE SrtStream
        kind(k) == KindOf(src(k).codec_type)
        slot(k) == Cardinality({j \in 1..(k - 1) : kind(j) = kind(k)})
        opts(k, opt) == {i \in 1..Len(cmd) : /\ cmd[i].opt = opt
                                             /\ cmd[i].kind = kind(k)
                                             /\ cmd[i].slot = slot(k)}
        given(k, opt) == opts(k, opt) # {}
        value(k, opt) == cmd[Max(opts(k, opt))].value
        codec(k) == IF given(k, "-c") THEN EncodedAs(value(k, "-c"))
                    ELSE DefaultCodec(kind(k))
        tagged(k) == given(k, "-metadata:s") \/ HasLanguageTag(src(k))
        language(k) == IF given(k, "-metadata:s") THEN value(k, "-metadata:s")
                       ELSE src(k).tags.language
        pic(k) == IF given(k, "-disposition")
                  THEN value(k, "-disposition") = "attached_pic"
                  ELSE IsAttachedPic(src(k))
        disposition(k) == [attached_pic |-> IF pic(k) THEN 1 ELSE 0]
        out(k) == IF tagged(k)
                  THEN [index |-> k - 1, codec_name |-> codec(k),
                        codec_type |-> src(k).codec_type,
                        tags |-> [language |-> language(k)],
                        disposition |-> disposition(k)]
                  ELSE [index |-> k - 1, codec_name |-> codec(k),
                        codec_type |-> src(k).codec_type,
                        disposition |-> disposition(k)]
    IN  [returncode |-> 0, streams |-> [k \in 1..Len(maps) |-> out(k)]]

\* files of the output directory
Absent == [state |-> "absent"]

Partial == [state |-> "partial"]

Complete(report) == [state |-> "complete", report |-> report]

\* a movie file that was not probed yet: its content is chosen at the probe
Unprobed == [returncode |-> -1, streams |-> <<>>]

-----------------------------------------------------------------------------
(* The operator.                                                            *)

Answers == {"y", "Y", "yes", "YES", "Yes", "", "n", "no", "yes please"}

\* str.lower
lower(a) ==
    IF a \in {"y", "Y"} THEN "y"
    ELSE IF a \in {"yes", "YES", "Yes"} THEN "yes"
    ELSE a

\* a slip of line 251: every answer but a refusal confirms
confirmed_unless_refused(a) == lower(a) \notin {"n", "no"}

\* line 251
confirmed(a) == lower(a) \in {"y", "yes"}

\* 'subtitles' in glob_result (line 196)
HasSubtitlesWord == {"Alpha subtitles", "subtitles"}

contains_subtitles(path) ==
    \/ path.directory \in HasSubtitlesWord
    \/ \E i \in 1..Len(path.file) : path.file[i] \in HasSubtitlesWord

-----------------------------------------------------------------------------
(* The files the model draws its inputs from.                               *)

\* stream records of a probe report, before ffprobe numbers them
KVideo == [codec_name |-> "h264", codec_type |-> "video"]

KPic == [codec_name |-> "mjpeg", codec_type |-> "video",
         disposition |-> [attached_pic |-> 1]]

KAudio == [codec_name |-> "aac", codec_type |-> "audio",
           tags |-> [language |-> "eng"], disposition |-> [attached_pic |-> 0]]

KSubEng == [codec_name |-> "subrip", codec_type |-> "subtitle",
            tags |-> [language |-> "eng"]]

KSubNoTag == [codec_name |-> "ass", codec_type |-> "subtitle"]

KSubJpn == [codec_name |-> "dvd_subtitle", codec_type |-> "subtitle",
            tags |-> [language |-> "jpn"]]

KSubPgs == [codec_name |-> "hdmv_pgs_subtitle", codec_type |-> "subtitle",
            tags |-> [language |-> "jpn"]]

KSubEmpty == [codec_name |-> "subrip", codec_type |-> "subtitle",
              tags |-> [language |-> ""]]

KSubUnknown == [codec_name |-> "subrip", codec_type |-> "subtitle",
                tags |-> [language |-> "xx"]]

KAttachment == [codec_name |-> "ttf", codec_type |-> "attachment"]

KNoType == [codec_name |-> "h264"]

\* ffprobe numbers the streams of a container 0, 1, 2, ...
WithIndex(raw, index) ==
    [k \in DOMAIN raw \cup {"index"} |-> IF k = "index" THEN index ELSE raw[k]]

Report(kinds) ==
    [returncode |-> 0,
     streams |-> [i \in 1..Len(kinds) |-> WithIndex(kinds[i], i - 1)]]

\* ffprobe exits non-zero
FailedReport == [returncode |-> 1, streams |-> <<>>]

\* a stream record without "index"
NoIndexReport ==
    [returncode |-> 0,
     streams |-> <<[codec_name |-> "h264", codec_type |-> "video"]>>]

SeqsUpTo(S, n) == UNION {[1..k -> S] : k \in 0..n}

PlanStreamKinds ==
    {KVideo, KPic, KAudio, KSubEng, KSubNoTag, KSubPgs, KSubEmpty}

PlanReports == {Report(kinds) : kinds \in SeqsUpTo(PlanStreamKinds, MaxStreams)}

RunReports ==
    { Report(<<KVideo, KAudio, KSubEng>>),
      Report(<<KPic, KSubNoTag, KVideo>>),
      Report(<<KVideo, KSubPgs, KSubJpn, KSubUnknown>>),
      Report(<<KVideo, KSubEmpty>>),
      Report(<<KVideo, KAttachment>>),
      Report(<<KVideo, KNoType>>),
      NoIndexReport,
      FailedReport }

\* subtitle files
SrtAlpha == Path("bazarr", <<"Alpha", "srt">>)

SrtAlphaEn == Path("bazarr", <<"Alpha", "en", "srt">>)

SrtAlphaJa == Path("bazarr", <<"Alpha", "ja", "srt">>)

SrtAlphaJaOld == Path("old", <<"Alpha", "ja", "srt">>)

SrtAlphaFr == Path("bazarr", <<"Alpha", "fr", "srt">>)

SrtAlphaForced == Path("bazarr", <<"Alpha", "forced", "srt">>)

SrtAlphaUpper == Path("bazarr", <<"Alpha", "EN", "srt">>)

SrtBetaJa == Path("bazarr", <<"Beta", "2020", "jpn", "srt">>)

SrtHidden == Path("bazarr", <<"", "srt">>)

SrtPaths == {SrtAlpha, SrtAlphaEn, SrtAlphaJa, SrtAlphaJaOld, SrtAlphaForced,
             SrtAlphaUpper, SrtBetaJa, SrtHidden}

\* a glob result lists every file once
Globs(paths, n) ==
    {s \in SeqsUpTo(paths, n) : \A i, j \in 1..Len(s) : i # j => s[i] # s[j]}

PlanCatalogs ==
    { <<>>, <<SrtAlpha>>, <<SrtAlphaJa, SrtAlphaEn>>, <<SrtAlphaFr, SrtAlphaJa>>,
      <<SrtAlphaEn, SrtAlphaJa, SrtAlphaFr>>, <<SrtBetaJa, SrtAlphaFr>> }

RunCatalogs == { <<SrtBetaJa>>, <<SrtAlphaJa, SrtAlpha, SrtBetaJa>> }

\* movie files
MovieAlpha == Path("Alpha (2019)", <<"Alpha", "mkv">>)

MovieAlphaMp4 == Path("Alpha (2019)", <<"Alpha", "mp4">>)

MovieBeta == Path("Beta (2020)", <<"Beta", "2020", "mkv">>)

MovieOutput == Path("Alpha (2019)", <<"Alpha subtitles", "mkv">>)

MoviePaths == {MovieAlpha, MovieAlphaMp4, MovieBeta, MovieOutput}

RunLibraries == { <<MovieAlpha, MovieOutput, MovieBeta>>,
                  <<MovieBeta, MovieAlpha, MovieAlphaMp4>> }

\* the output paths of the movies that find_movies yields
OutputPaths ==
    {[directory |-> p.directory, name |-> SubSeq(p.file, 1, Len(p.file) - 1)] :
        p \in {q \in MoviePaths : ~ contains_subtitles(q)}}

\* an output file of an earlier run, made when the catalog was smaller
OldOutput == Complete(Report(<<KVideo, KSubEng>>))

\* an output file that ffprobe cannot read
BrokenOutput == Complete(FailedReport)

-----------------------------------------------------------------------------
(* The run of the program: Analyser.__init__                                *)

Exception(type, at) == [type |-> type, at |-> at]

\* line 253: os.remove(output_path) after the operator confirmed
remove_output(outs, path) == [outs EXCEPT ![path] = Absent]

\* a slip of lines 332-335: the output file is left behind
cleanup_output_skipped(outs, path) == outs

\* lines 332-335: os.remove(output_path), a FileNotFoundError passed over
cleanup_output(outs, path) == [outs EXCEPT ![path] = Absent]

\* the state of a process that has just been started
Started(files, lib, outs, run, built) ==
    /\ srt_files = files
    /\ library = lib
    /\ media = [p \in MoviePaths |-> Unprobed]
    /\ outputs = outs
    /\ run_no = run
    /\ pc = "build_subtitle_map"
    /\ srt_pos = 0
    /\ subtitle_map = <<>>
    /\ movie_pos = 0
    /\ movie = None
    /\ missing_subtitles = <<>>
    /\ answer = None
    /\ missing_languages = <<>>
    /\ command = <<>>
    /\ error = None
    /\ history = [transcode |-> "none", partial |-> FALSE, built |-> built]

\* lines 214-226: one turn of the loop of build_subtitle_map, which takes the
\* next ExternalSubtitle from find_external_subtitles
BuildSubtitleMap ==
    /\ pc = "build_subtitle_map"
    /\ IF srt_pos = Len(srt_files)
       THEN /\ pc' = "find_movies"
            /\ UNCHANGED <<srt_pos, subtitle_map, error>>
       ELSE LET path == srt_files[srt_pos + 1]
            IN  IF ExternalSubtitle_from_string_raises(path)
                THEN /\ pc' = "exit"
                     /\ error' = Exception("AttributeError",
                                           "ExternalSubtitle.from_string")
                     /\ UNCHANGED <<srt_pos, subtitle_map>>
                ELSE /\ subtitle_map' = build_subtitle_map_step(
                            subtitle_map, ExternalSubtitle_from_string(path))
                     /\ srt_pos' = srt_pos + 1
                     /\ UNCHANGED <<pc, error>>
    /\ UNCHANGED <<srt_files, library, media, outputs, run_no, movie_pos, movie,
                   missing_subtitles, answer, missing_languages, command,
                   history>>

\* lines 236 and 189-198: the loop takes the next Movie from find_movies, whose
\* constructor probes the file (lines 122-150)
FindMovies(Reports) ==
    /\ pc = "find_movies"
    /\ IF movie_pos = Len(library)
       THEN /\ pc' = "exit"
            /\ UNCHANGED <<media, movie_pos, movie, error>>
       ELSE LET path == library[movie_pos + 1]
            IN  /\ movie_pos' = movie_pos + 1
                /\ IF contains_subtitles(path)
                   THEN UNCHANGED <<media, pc, movie, error>>
                   ELSE \E report \in (IF media[path] = Unprobed THEN Reports
                                       ELSE {media[path]}) :
                            /\ media' = [media EXCEPT ![path] = report]
                            /\ IF find_streams_raises(report)
                               THEN /\ pc' = "exit"
                                    /\ error' = Exception(
                                         IF report.returncode # 0
                                         THEN "CalledProcessError" ELSE "KeyError",
                                         "Movie.find_streams")
                                    /\ UNCHANGED movie
                               ELSE /\ movie' = Movie(path, report)
                                    /\ pc' = "isfile"
                                    /\ UNCHANGED error
    /\ UNCHANGED <<srt_files, library, outputs, run_no, srt_pos, subtitle_map,
                   missing_subtitles, answer, missing_languages, command,
                   history>>

\* lines 237-256 up to the prompt: the check of an existing output file
IsFile ==
    /\ pc = "isfile"
    /\ LET file == outputs[output_path(movie)]
       IN  IF file.state = "absent"
           THEN /\ pc' = "plan"
                /\ UNCHANGED <<missing_subtitles, error>>
           ELSE IF find_streams_raises(file.report)
           THEN /\ pc' = "exit"
                /\ error' = Exception("CalledProcessError", "existing_movie")
                /\ UNCHANGED missing_subtitles
           ELSE LET existing_movie ==
                        Movie(Path(movie.directory, <<"subtitles", "mkv">>),
                              file.report)
                    missing == existing_missing_subtitles(
                                    subtitle_map, movie.name, existing_movie)
                IN  /\ missing_subtitles' = missing
                    /\ pc' = IF missing # <<>> THEN "input" ELSE "find_movies"
                    /\ UNCHANGED error
    /\ UNCHANGED <<srt_files, library, media, outputs, run_no, srt_pos,
                   subtitle_map, movie_pos, movie, answer, missing_languages,
                   command, history>>

\* lines 250-253: the operator answers the prompt
Input ==
    /\ pc = "input"
    /\ \E a \in Answers :
        /\ answer' = Str(a)
        /\ IF confirmed(a)
           THEN /\ outputs' = remove_output(outputs, output_path(movie))
                /\ history' = [history EXCEPT
                                 !.built = @ \ {output_path(movie)}]
                /\ pc' = "plan"
           ELSE /\ pc' = "find_movies"
                /\ UNCHANGED <<outputs, history>>
    /\ UNCHANGED <<srt_files, library, media, run_no, srt_pos, subtitle_map,
                   movie_pos, movie, missing_subtitles, missing_languages,
                   command, error>>

\* line 250: input() raises EOFError when standard input is closed
InputClosed ==
    /\ pc = "input"
    /\ pc' = "exit"
    /\ error' = Exception("EOFError", "input")
    /\ UNCHANGED <<srt_files, library, media, outputs, run_no, srt_pos,
                   subtitle_map, movie_pos, movie, missing_subtitles, answer,
                   missing_languages, command, history>>

\* the command as far as it is built when get_language raises in the loop of
\* lines 285-293
command_before_raise(map, m, missing) ==
    LET bad == Min({k \in 1..Len(m.subtitles) :
                        get_language_raises(m.subtitles[k].language)})
        before == [m EXCEPT !.subtitles = SubSeq(m.subtitles, 1, bad - 1)]
    IN  input_args(map, m, missing) \o video_args(m) \o audio_args(m)
        \o subtitle_args(before)

\* lines 258-324: the missing languages and the command
Plan ==
    /\ pc = "plan"
    /\ LET missing == compute_missing_languages(subtitle_map, movie)
       IN  /\ missing_languages' = missing
           /\ IF build_command_raises(movie)
              THEN /\ command' = command_before_raise(subtitle_map, movie, missing)
                   /\ pc' = "exit"
                   /\ error' = Exception("AttributeError", "get_language")
              ELSE /\ command' = build_command(subtitle_map, movie, missing)
                   /\ pc' = "Popen"
                   /\ UNCHANGED error
    /\ history' = [history EXCEPT !.transcode = "none", !.partial = FALSE]
    /\ UNCHANGED <<srt_files, library, media, outputs, run_no, srt_pos,
                   subtitle_map, movie_pos, movie, missing_subtitles, answer>>

\* line 327: Popen(['pv', movie.path]); an OSError (pv cannot be started) is
\* not caught by the except clause and ends the run
Popen ==
    /\ pc = "Popen"
    /\ \E started \in BOOLEAN :
        IF started
        THEN /\ pc' = "run"
             /\ UNCHANGED <<error, history>>
        ELSE /\ pc' = "exit"
             /\ error' = Exception("OSError", "Popen")
             /\ history' = [history EXCEPT !.transcode = "failed"]
    /\ UNCHANGED <<srt_files, library, media, outputs, run_no, srt_pos,
                   subtitle_map, movie_pos, movie, missing_subtitles, answer,
                   missing_languages, command>>

\* line 328: run(command) starts ffmpeg; an OSError is not caught either
RunFfmpeg ==
    /\ pc = "run"
    /\ \E started \in BOOLEAN :
        IF started
        THEN /\ pc' = "ffmpeg"
             /\ UNCHANGED <<error, history>>
        ELSE /\ pc' = "exit"
             /\ error' = Exception("OSError", "run")
             /\ history' = [history EXCEPT !.transcode = "failed"]
    /\ UNCHANGED <<srt_files, library, media, outputs, run_no, srt_pos,
                   subtitle_map, movie_pos, movie, missing_subtitles, answer,
                   missing_languages, command>>

\* ffmpeg has read its inputs and creates the output file
FfmpegOpensOutput ==
    /\ pc = "ffmpeg"
    /\ pc' = "writing"
    /\ outputs' = [outputs EXCEPT ![output_path(movie)] = Partial]
    /\ history' = [history EXCEPT !.partial = TRUE]
    /\ UNCHANGED <<srt_files, library, media, run_no, srt_pos, subtitle_map,
                   movie_pos, movie, missing_subtitles, answer,
                   missing_languages, command, error>>

\* lines 328-329: ffmpeg exits with 0 and the loop goes on
FfmpegSucceeds ==
    /\ pc = "writing"
    /\ outputs' = [outputs EXCEPT ![output_path(movie)] =
                      Complete(TranscoderOutput(command, media[movie.path]))]
    /\ history' = [history EXCEPT !.transcode = "completed",
                                  !.built = @ \cup {output_path(movie)}]
    /\ pc' = "find_movies"
    /\ UNCHANGED <<srt_files, library, media, run_no, srt_pos, subtitle_map,
                   movie_pos, movie, missing_subtitles, answer,
                   missing_languages, command, error>>

\* line 329: ffmpeg exits non-zero, before or after it created the output
\* file, and check_returncode raises CalledProcessError
FfmpegFails ==
    /\ pc \in {"ffmpeg", "writing"}
    /\ pc' = "except"
    /\ error' = Exception("CalledProcessError", "run")
    /\ UNCHANGED <<srt_files, library, media, outputs, run_no, srt_pos,
                   subtitle_map, movie_pos, movie, missing_subtitles, answer,
                   missing_languages, command, history>>

\* the operator interrupts the transcode step (lines 327-329)
KeyboardInterrupt ==
    /\ pc \in {"Popen", "run", "ffmpeg", "writing"}
    /\ pc' = "except"
    /\ error' = Exception("KeyboardInterrupt", "run")
    /\ UNCHANGED <<srt_files, library, media, outputs, run_no, srt_pos,
                   subtitle_map, movie_pos, movie, missing_subtitles, answer,
                   missing_languages, command, history>>

\* lines 330-339: the except block removes the output file, then raises the
\* SubprocessError again or leaves the loop
Except ==
    /\ pc = "except"
    /\ outputs' = cleanup_output(outputs, output_path(movie))
    /\ history' = [history EXCEPT !.transcode = "failed",
                                  !.built = @ \ {output_path(movie)}]
    /\ error' = IF error.type = "CalledProcessError" THEN error ELSE None
    /\ pc' = "exit"
    /\ UNCHANGED <<srt_files, library, media, run_no, srt_pos, subtitle_map,
                   movie_pos, movie, missing_subtitles, answer,
                   missing_languages, command>>

\* the program is started again; the files are as the last run left them
StartRun ==
    /\ pc = "exit"
    /\ run_no < MaxRuns
    /\ run_no' = run_no + 1
    /\ pc' = "build_subtitle_map"
    /\ srt_pos' = 0
    /\ subtitle_map' = <<>>
    /\ movie_pos' = 0
    /\ movie' = None
    /\ missing_subtitles' = <<>>
    /\ answer' = None
    /\ missing_languages' = <<>>
    /\ command' = <<>>
    /\ error' = None
    /\ history' = [history EXCEPT !.transcode = "none", !.partial = FALSE]
    /\ UNCHANGED <<srt_files, library, media, outputs>>

-----------------------------------------------------------------------------
(* Specifications.                                                          *)

\* the whole program, run MaxRuns times over a library of sample movies
Init ==
    \E files \in RunCatalogs, lib \in RunLibraries,
       outs \in [OutputPaths -> {Absent, OldOutput, BrokenOutput}] :
        Started(files, lib, outs, 1, {})

Next ==
    \/ BuildSubtitleMap
    \/ FindMovies(RunReports)
    \/ IsFile
    \/ Input
    \/ InputClosed
    \/ Plan
    \/ Popen
    \/ RunFfmpeg
    \/ FfmpegOpensOutput
    \/ FfmpegSucceeds
    \/ FfmpegFails
    \/ KeyboardInterrupt
    \/ Except
    \/ StartRun

Spec == Init /\ [][Next]_vars

\* build_subtitle_map over every glob result of at most MaxFiles files
InitCatalog ==
    \E files \in Globs(SrtPaths, MaxFiles) :
        Started(files, <<>>, [p \in OutputPaths |-> Absent], 1, {})

NextCatalog == BuildSubtitleMap

SpecCatalog == InitCatalog /\ [][NextCatalog]_vars

\* the plan of one movie with any streams, at most MaxStreams of them
InitPlan ==
    \E files \in PlanCatalogs :
        Started(files, <<MovieAlpha>>, [p \in OutputPaths |-> Absent], 1, {})

NextPlan ==
    \/ BuildSubtitleMap
    \/ FindMovies(PlanReports)
    \/ IsFile
    \/ Plan

SpecPlan == InitPlan /\ [][NextPlan]_vars

-----------------------------------------------------------------------------
(* Properties of the plan.                                                  *)

\* the command was built to its end (line 322)
PlanComplete == command # <<>> /\ command[Len(command)].opt = "output"

IsMap(a) == a.opt = "-map"

IsSlotOption(a) == a.opt \in {"-c", "-metadata:s", "-disposition"}

\* the stream of the movie with the given source index
SourceStream(index) ==
    movie.streams[CHOOSE i \in 1..Len(movie.streams) :
                     movie.streams[i].index = index]

\* the kind of output stream a -map option makes
MapKind(a) ==
    IF a.file = 0 THEN KindOf(SourceStream(a.index).codec_type) ELSE "s"

MapPositions == {i \in 1..Len(command) : IsMap(command[i])}

\* the output slot ffmpeg gives the stream of the -map at position i: the
\* number of earlier -map options of the same kind
MapRank(i) ==
    Cardinality({j \in MapPositions : j < i /\ MapKind(command[j]) = MapKind(command[i])})

\* the -map option a per-stream option follows
OwnerMap(i) == Max({j \in MapPositions : j < i})

\* the per-stream options that follow the -map at position i
OptionsOf(i) ==
    {j \in 1..Len(command) : /\ IsSlotOption(command[j])
                             /\ {k \in MapPositions : k < j} # {}
                             /\ OwnerMap(j) = i}

NumEmbedded ==
    Cardinality({i \in 1..Len(movie.streams) : is_valid_subtitle(movie.streams[i])})

NumVideo ==
    Cardinality({i \in 1..Len(movie.streams) :
        movie.streams[i].codec_type = "video" /\ ~ movie.streams[i].attached_pic})

\* positions in the command of the -map options of the external subtitles and
\* of the attached pictures, in order
ExternalMaps == {i \in MapPositions : command[i].file # 0}

PictureMaps ==
    {i \in MapPositions : /\ command[i].file = 0
                          /\ SourceStream(command[i].index).codec_type = "video"
                          /\ SourceStream(command[i].index).attached_pic}

\* how many elements of S are below i
Position(S, i) == Cardinality({j \in S : j < i})

\* C1: in every complete plan each per-stream option (-c, -metadata, -disposition)
\* names the kind and the positional output slot of the -map it follows; the slots
\* used for video and for subtitles are 0..n-1; the external subtitle at position p
\* uses slot (valid embedded subtitles) + p and the attached picture at position p
\* uses video slot (non-attached video streams) + p.
C1_SlotsArePositional ==
    PlanComplete =>
        /\ \A j \in 1..Len(command) :
              IsSlotOption(command[j]) =>
                  /\ {k \in MapPositions : k < j} # {}
                  /\ command[j].kind = MapKind(command[OwnerMap(j)])
                  /\ command[j].slot = MapRank(OwnerMap(j))
        /\ \A kind \in {"v", "s"} :
              {command[j].slot : j \in {k \in 1..Len(command) :
                    IsSlotOption(command[k]) /\ command[k].kind = kind}}
              = 0..(Cardinality({i \in MapPositions : MapKind(command[i]) = kind}) - 1)
        /\ \A i \in ExternalMaps :
              /\ OptionsOf(i) # {}
              /\ \A j \in OptionsOf(i) :
                    command[j].slot = NumEmbedded + Position(ExternalMaps, i)
        /\ \A i \in PictureMaps :
              /\ OptionsOf(i) # {}
              /\ \A j \in OptionsOf(i) :
                    command[j].slot = NumVideo + Position(PictureMaps, i)

\* a plan with two embedded subtitles and three external ones in slots 2, 3, 4,
\* and with a video stream and an attached picture, which uses video slot 1
C1_Witness ==
    /\ PlanComplete
    /\ NumEmbedded = 2
    /\ Len(missing_languages) = 3
    /\ {command[j].slot : j \in UNION {OptionsOf(i) : i \in ExternalMaps}} = {2, 3, 4}
    /\ NumVideo = 1
    /\ \E i \in PictureMaps : \E j \in OptionsOf(i) : command[j].slot = 1

\* the group of the plan a -map option belongs to: 1 video, 2 audio, 3 embedded
\* subtitle, 4 external subtitle, 5 attached picture
MapGroup(a) ==
    IF a.file # 0 THEN 4
    ELSE LET stream == SourceStream(a.index)
         IN  IF stream.codec_type = "video"
             THEN (IF stream.attached_pic THEN 5 ELSE 1)
             ELSE IF stream.codec_type = "audio" THEN 2 ELSE 3

Maps == SelectSeq(command, IsMap)

\* C4: the -map options come in the order video, audio, embedded subtitles,
\* external subtitles, attached pictures; inside a group in source order; every
\* video, audio and valid subtitle stream of the movie is mapped exactly once by
\* its own source index, no other stream of the movie is mapped, and the external
\* inputs 1..n are mapped once each in order.
C4_MapOrder ==
    PlanComplete =>
        /\ \A i \in 1..Len(Maps) :
              Maps[i].file = 0 =>
                  \E k \in 1..Len(movie.streams) :
                      /\ movie.streams[k].index = Maps[i].index
                      /\ is_valid_stream(movie.streams[k])
        /\ \A k \in 1..Len(movie.streams) :
              Cardinality({i \in 1..Len(Maps) :
                              /\ Maps[i].file = 0
                              /\ Maps[i].index = movie.streams[k].index})
              = IF is_valid_stream(movie.streams[k]) THEN 1 ELSE 0
        /\ \A i, j \in 1..Len(Maps) :
              i < j =>
                  /\ MapGroup(Maps[i]) <= MapGroup(Maps[j])
                  /\ (MapGroup(Maps[i]) = MapGroup(Maps[j]) /\ Maps[i].file = 0)
                        => Maps[i].index < Maps[j].index
        /\ LET external == SelectSeq(Maps, LAMBDA a : a.file # 0)
           IN  /\ Len(external) = Len(missing_languages)
               /\ \A p \in 1..Len(external) : external[p].file = p

\* a plan with all five groups, made from a movie whose attached picture comes
\* first and whose video stream comes last
C4_Witness ==
    /\ PlanComplete
    /\ {MapGroup(Maps[i]) : i \in 1..Len(Maps)} = {1, 2, 3, 4, 5}
    /\ movie.streams[1].attached_pic
    /\ movie.streams[Len(movie.streams)].codec_type = "video"
    /\ ~ movie.streams[Len(movie.streams)].attached_pic

Inputs == SelectSeq(command, LAMBDA a : a.opt = "-i")

\* the language of the value of a -metadata option
MetadataLanguage(a) == Language_from_string(Str(a.value))

\* C9: the inputs of a complete plan are pipe:0 followed by one subtitle file per
\* missing language, in order: input i is a file of the subtitle directory whose
\* name is the movie's and whose catalog language is the i-th missing one; the
\* -map option of input i is followed by that language as metadata and by the
\* codec subrip.  Without missing languages there is no such input and no such
\* -map option.
C9_InputsMatchMissing ==
    PlanComplete =>
        /\ Len(Inputs) = 1 + Len(missing_languages)
        /\ Inputs[1].path = PIPE0
        /\ Cardinality(ExternalMaps) = Len(missing_languages)
        /\ \A p \in 1..Len(missing_languages) :
              /\ \E f \in 1..Len(srt_files) :
                    /\ Inputs[p + 1].path = srt_files[f]
                    /\ ExternalSubtitle_from_string(srt_files[f]).name = movie.name
                    /\ Language_eq(catalog_language(
                            ExternalSubtitle_from_string(srt_files[f])),
                          missing_languages[p])
              /\ \E i \in ExternalMaps :
                    /\ command[i].file = p
                    /\ \E j \in OptionsOf(i) :
                          /\ command[j].opt = "-metadata:s"
                          /\ Language_eq(MetadataLanguage(command[j]),
                                         missing_languages[p])
                    /\ \E j \in OptionsOf(i) :
                          command[j].opt = "-c" /\ command[j].value = "subrip"

\* a plan with two missing languages
C9_Witness ==
    /\ PlanComplete
    /\ Len(missing_languages) = 2
    /\ Len(Inputs) = 3
    /\ ~ Language_eq(missing_languages[1], missing_languages[2])

\* the language a stream counts as: the default language without a tag
EffectiveLanguage(stream) ==
    IF stream.language = None THEN DEFAULT_LANGUAGE ELSE stream.language

EmbeddedSubtitles ==
    {i \in 1..Len(movie.streams) : is_valid_subtitle(movie.streams[i])}

CatalogLanguages ==
    IF movie.name \in DOMAIN subtitle_map
    THEN dict_keys(subtitle_map[movie.name]) ELSE <<>>

\* C3 (as claimed): the missing languages are the catalog languages of the movie,
\* in catalog order, that are not the effective language of a valid embedded
\* subtitle, where a stream without language tag counts as the default language.
C3_MissingUsesEffectiveLanguage ==
    pc = "Popen" =>
        missing_languages =
            SelectSeq(CatalogLanguages,
                      LAMBDA l : ~ \E i \in EmbeddedSubtitles :
                          Language_eq(l, EffectiveLanguage(movie.streams[i])))

DefaultFlags ==
    {j \in 1..Len(command) : /\ command[j].opt = "-disposition"
                             /\ command[j].kind = "s"
                             /\ command[j].value = "default"}

\* C2 (as claimed): a plan never flags two subtitle slots as default, and when the
\* default language is there both as an embedded subtitle and as a catalog file
\* of the movie, exactly one slot is flagged and it is an embedded one.
C2_OneDefaultSubtitle ==
    PlanComplete =>
        /\ Cardinality(DefaultFlags) <= 1
        /\ ( /\ \E i \in EmbeddedSubtitles :
                  Language_eq(EffectiveLanguage(movie.streams[i]), DEFAULT_LANGUAGE)
             /\ In(DEFAULT_LANGUAGE, CatalogLanguages) )
           => /\ Cardinality(DefaultFlags) = 1
              /\ \A j \in DefaultFlags : command[j].slot < NumEmbedded

-----------------------------------------------------------------------------
(* Properties of the catalog.                                               *)

\* the language the claim gives a subtitle file: that of its language segment,
\* and 'en' when the name has no language segment
ClaimedLanguage(path) ==
    LET groupdict == ExternalSubtitle_match(path.file)
    IN  IF groupdict.language = None THEN Language_from_string(Str("en"))
        ELSE Language_from_string(groupdict.language)

\* the files discovered with the given name and language, by position
FilesOf(name, language) ==
    {f \in 1..Len(srt_files) :
        /\ ExternalSubtitle_match(srt_files[f].file).name = name
        /\ Language_eq(ClaimedLanguage(srt_files[f]), language)}

CatalogNames ==
    {ExternalSubtitle_match(srt_files[f].file).name : f \in 1..Len(srt_files)}
    \cup {<<"Gamma">>}

KnownLanguages == {Language(l.part1, l.part2t, l.part2b, l.name) : l \in languages}

\* C8 (as claimed): when build_subtitle_map has finished, get_subtitle_path gives
\* for every name and language the path of the last discovered file with that
\* name and language, a file without language segment counting as 'en', and None
\* when there is no such file; no language is recorded twice for a name.
C8_LastFileWins ==
    pc = "find_movies" =>
        /\ \A name \in DOMAIN subtitle_map :
              \A i, j \in 1..Len(subtitle_map[name]) :
                  i # j => ~ Language_eq(subtitle_map[name][i].key,
                                         subtitle_map[name][j].key)
        /\ \A name \in CatalogNames : \A language \in KnownLanguages :
              get_subtitle_path(subtitle_map, name, language)
              = IF FilesOf(name, language) = {} THEN None
                ELSE srt_files[Max(FilesOf(name, language))]

-----------------------------------------------------------------------------
(* Properties of the run.                                                   *)

\* C5 (as claimed): a movie that cannot be probed is the only one abandoned, so
\* the run never ends on a probe failure while later movies wait.
C5_ProbeFailureIsMovieScoped ==
    ~ ( /\ pc = "exit"
        /\ error # None
        /\ error.at = "Movie.find_streams"
        /\ movie_pos < Len(library) )

Affirmative == {Str("y"), Str("Y"), Str("yes"), Str("YES"), Str("Yes")}

\* the existing output of the current movie has a valid subtitle in every
\* language the catalog holds for the movie
OutputLacksNothing ==
    LET file == outputs[output_path(movie)]
    IN  /\ file.state = "complete"
        /\ ~ find_streams_raises(file.report)
        /\ \A k \in 1..Len(CatalogLanguages) :
              \E i \in 1..Len(file.report.streams) :
                  /\ is_valid_subtitle(load_stream(file.report.streams[i]))
                  /\ Language_eq(CatalogLanguages[k],
                                 load_stream(file.report.streams[i]).language)

\* C7: a complete output file changes or disappears only in the step in which
\* the operator answers the prompt for that movie with y or yes in any case;
\* after any other answer, and when the existing output lacks no catalog
\* language, the files stay as they are and the loop goes to the next movie
\* (or the program ends) without a transcode.
C7_OverwriteOnlyAfterYes ==
    [][ /\ \A p \in OutputPaths :
              (outputs[p].state = "complete" /\ outputs'[p] # outputs[p])
                  => /\ pc = "input"
                     /\ p = output_path(movie)
                     /\ answer' \in Affirmative
        /\ (pc = "input" /\ answer' \notin Affirmative)
              => (outputs' = outputs /\ pc' \in {"find_movies", "exit"})
        /\ (pc = "isfile" /\ OutputLacksNothing)
              => (outputs' = outputs /\ pc' = "find_movies")
      ]_vars

\* the first movie of the run had an output file, the operator answered Yes,
\* and the file is gone before the plan is made
C7_Witness ==
    /\ pc = "plan"
    /\ movie_pos = 1
    /\ answer = Str("Yes")
    /\ missing_subtitles # <<>>
    /\ outputs[output_path(movie)] = Absent

\* C10: an output that a run built, and that was not removed since, is skipped by
\* the existing-output check: no prompt, no change of the files, no transcode.
C10_RerunSkipsBuiltOutput ==
    [][ (pc = "isfile" /\ output_path(movie) \in history.built)
            => /\ pc' = "find_movies"
               /\ outputs' = outputs
               /\ answer' = answer
               /\ command' = command
      ]_vars

\* the second run reaches the check of an output the first run built with
\* external subtitles of the catalog
C10_Witness ==
    /\ run_no = 2
    /\ pc = "isfile"
    /\ output_path(movie) \in history.built
    /\ CatalogLanguages # <<>>
    /\ outputs[output_path(movie)].state = "complete"

====
